---- MODULE Spec2Model ----
(***************************************************************************)
(* Model of compile-errors.py: the fixed-point search compileErrors() and  *)
(* the module-level sequence of calls that runs it once per tool.          *)
(*                                                                         *)
(* Texts are sequences of one-character strings; "\n" is the line          *)
(* terminator.  The external tool is the environment: each invocation      *)
(* either cannot be started or yields stdout, stderr and an exit status.   *)
(* The artifact file is assumed writable (open() does not raise).          *)
(***************************************************************************)
EXTENDS Integers, Sequences, FiniteSets

VARIABLES maxIterations, call, tool, pc, program, count, file, result,
          output, printed, ret,
          invocations, writes, comparisons, firstEq, procStarted,
          failedBefore

vars == <<maxIterations, call, tool, pc, program, count, file, result,
          output, printed, ret,
          invocations, writes, comparisons, firstEq, procStarted,
          failedBefore>>

\* ---------------------------------------------------------------- bounds
MaxBudget == 3      \* maxIterations ranges over 1..MaxBudget
MaxLen == 2         \* longest text an arbitrary tool emits

\* ----------------------------------------------------------------- texts
NL == "\n"
Alphabet == {"x", NL}

Texts == UNION {[1..n -> Alphabet] : n \in 0..MaxLen}

ExitCodes == {0, 1}

\* the literal diagnostic "syntax error on line 1"
Diagnostic ==
  <<"s","y","n","t","a","x"," ","e","r","r","o","r"," ","o","n"," ",
    "l","i","n","e"," ","1">>

\* ------------------------------------------------- module-level call list
Calls ==
  << [description |-> "Python (trivial)", progFile |-> "prog0.py",
      compileCommand |-> <<"py", "prog0.py">>,
      errorsInStderr |-> TRUE, startingProgram |-> <<>>],
     [description |-> "Python", progFile |-> "prog.py",
      compileCommand |-> <<"py", "prog.py">>,
      errorsInStderr |-> TRUE, startingProgram |-> <<"x">>],
     [description |-> "Microsoft C", progFile |-> "progMSVC.c",
      compileCommand |-> <<"cl", "/std:c17", "/EHsc", "progMSVC.c">>,
      errorsInStderr |-> FALSE, startingProgram |-> <<"x">>],
     [description |-> "Microsoft C++", progFile |-> "progMSVC.cpp",
      compileCommand |-> <<"cl", "/std:c++20", "/EHsc", "progMSVC.cpp">>,
      errorsInStderr |-> FALSE, startingProgram |-> <<"x">>],
     [description |-> "Microsoft C/Clang", progFile |-> "progMSClang.c",
      compileCommand |-> <<"clang-cl", "/std:c17", "progMSClang.c">>,
      errorsInStderr |-> TRUE, startingProgram |-> <<"x">>],
     [description |-> "Microsoft C++/Clang", progFile |-> "progMSClang.cpp",
      compileCommand |-> <<"clang-cl", "/std:c++20", "progMSClang.cpp">>,
      errorsInStderr |-> TRUE, startingProgram |-> <<"x">>],
     [description |-> "Perl", progFile |-> "prog.pl",
      compileCommand |-> <<"perl", "prog.pl">>,
      errorsInStderr |-> TRUE, startingProgram |-> <<"1", "x">>],
     [description |-> "Shell script", progFile |-> "prog.sh",
      compileCommand |-> <<"sh", "prog.sh">>,
      errorsInStderr |-> TRUE, startingProgram |-> <<"x">>] >>

NumCalls == Len(Calls)

Cfg == Calls[call]

\* ------------------------------------------------ the tool (environment)
\* arbitrary: any captured streams and exit status, or not startable
\* oneStream: any text on the selected stream, nothing on the other,
\*            any exit status, or not startable
\* echo:      copies the artifact file to the selected stream, status 0
\* constant:  emits Diagnostic on the selected stream whatever the input
ToolKinds == {"arbitrary", "oneStream", "echo", "constant"}

NotStarted ==
  [started |-> FALSE, stdout |-> <<>>, stderr |-> <<>>, returncode |-> -1]

Emit(toStderr, text, rc) ==
  [started |-> TRUE,
   stdout |-> IF toStderr THEN <<>> ELSE text,
   stderr |-> IF toStderr THEN text ELSE <<>>,
   returncode |-> rc]

ProcessOutcomes(kind, toStderr, contents) ==
  CASE kind = "arbitrary" ->
         {NotStarted} \cup
         { [started |-> TRUE, stdout |-> so, stderr |-> se, returncode |-> rc]
             : so \in Texts, se \in Texts, rc \in ExitCodes }
    [] kind = "oneStream" ->
         {NotStarted} \cup
         { Emit(toStderr, text, rc) : text \in Texts, rc \in ExitCodes }
    [] kind = "echo" -> { Emit(toStderr, contents, 0) }
    [] kind = "constant" -> { Emit(toStderr, Diagnostic, rc) : rc \in ExitCodes }

\* ------------------------------------------------------- pure operations
\* print(program, file=f): the text followed by one line terminator
FileTextNoTerminator(text) == text

FileText(text) == text \o <<NL>>

\* subprocess.run(..., check=False): raises only when the process
\* could not be started
RaisesOnExit(r) == ~r.started \/ r.returncode # 0

Raises(r) == ~r.started

\* lines 43-46: the stream that carries the diagnostics
SelectOutput(r, errorsInStderr) ==
  IF errorsInStderr THEN r.stderr ELSE r.stdout

RECURSIVE Trimmed(_)
Trimmed(text) ==
  IF Len(text) > 0 /\ text[Len(text)] = NL
    THEN Trimmed(SubSeq(text, 1, Len(text) - 1))
    ELSE text

TextEqTrimmed(a, b) == Trimmed(a) = Trimmed(b)

\* line 47: program == output, exact string equality
TextEq(a, b) == a = b

\* line 50: program = output
KeepProgram(prog, out) == prog

NextProgram(prog, out) == out

\* range(1, maxIterations+1): the last value count takes
LastCountOffByOne == maxIterations + 1

LastCount == maxIterations

\* line 51: the count reported on non-convergence
ReportedCountMinusOne(c) == c - 1

ReportedCount(c) == c

\* line 49: return True leaves the loop
AfterMatchFallThrough == "loop"

AfterMatch == "returned"

\* len(program.splitlines())
NumLines(text) ==
  Cardinality({i \in 1..Len(text) : text[i] = NL})
    + (IF Len(text) > 0 /\ text[Len(text)] # NL THEN 1 ELSE 0)

Line(kind, n, lines) == [kind |-> kind, count |-> n, lines |-> lines]

\* ------------------------------------------------------------------ Init
Init ==
  /\ maxIterations \in 1..MaxBudget
  /\ call = 1
  /\ tool \in ToolKinds
  /\ pc = "enter"
  /\ program = <<>>
  /\ count = 0
  /\ file = <<>>
  /\ result = NotStarted
  /\ output = <<>>
  /\ printed = <<>>
  /\ ret = "none"
  /\ invocations = 0
  /\ writes = 0
  /\ comparisons = 0
  /\ firstEq = 0
  /\ procStarted = FALSE
  /\ failedBefore = FALSE

\* --------------------------------------------------------------- actions
\* lines 33-34: print the description, program = startingProgram
Enter ==
  /\ pc = "enter"
  /\ program' = Cfg.startingProgram
  /\ pc' = "loop"
  /\ UNCHANGED <<maxIterations, call, tool, count, file, result, output,
                 printed, ret, invocations, writes, comparisons, firstEq,
                 procStarted, failedBefore>>

\* lines 35-37: next value of count, rewrite the artifact file
Iterate ==
  /\ pc = "loop"
  /\ count < LastCount
  /\ count' = count + 1
  /\ file' = FileText(program)
  /\ writes' = writes + 1
  /\ pc' = "run"
  /\ UNCHANGED <<maxIterations, call, tool, program, result, output,
                 printed, ret, invocations, comparisons, firstEq,
                 procStarted, failedBefore>>

\* exception propagates out of compileErrors and ends the script
RunFailPropagate ==
  /\ pc = "run"
  /\ \E r \in ProcessOutcomes(tool, Cfg.errorsInStderr, file) :
       /\ Raises(r)
       /\ procStarted' = r.started
  /\ invocations' = invocations + 1
  /\ pc' = "raised"
  /\ failedBefore' = TRUE
  /\ UNCHANGED <<maxIterations, call, tool, program, count, file, result,
                 output, printed, ret, writes, comparisons, firstEq>>

\* the failure is reported but the loop goes on to the next iteration
RunFailContinue ==
  /\ pc = "run"
  /\ \E r \in ProcessOutcomes(tool, Cfg.errorsInStderr, file) :
       /\ Raises(r)
       /\ procStarted' = r.started
  /\ invocations' = invocations + 1
  /\ printed' = Append(printed, Line("error", 0, 0))
  /\ pc' = "loop"
  /\ failedBefore' = TRUE
  /\ UNCHANGED <<maxIterations, call, tool, program, count, file, result,
                 output, ret, writes, comparisons, firstEq>>

\* lines 40-42: subprocess.run raised; report and return False
RunFail ==
  /\ pc = "run"
  /\ \E r \in ProcessOutcomes(tool, Cfg.errorsInStderr, file) :
       /\ Raises(r)
       /\ procStarted' = r.started
  /\ invocations' = invocations + 1
  /\ printed' = Append(printed, Line("error", 0, 0))
  /\ ret' = "False"
  /\ pc' = "returned"
  /\ failedBefore' = TRUE
  /\ UNCHANGED <<maxIterations, call, tool, program, count, file, result,
                 output, writes, comparisons, firstEq>>

\* lines 39, 43-50: the process ran to completion and its streams were
\* captured; select the stream, compare, report or take the output
RunOK ==
  /\ pc = "run"
  /\ \E r \in ProcessOutcomes(tool, Cfg.errorsInStderr, file) :
       /\ ~Raises(r)
       /\ result' = r
       /\ procStarted' = r.started
  /\ invocations' = invocations + 1
  /\ output' = SelectOutput(result', Cfg.errorsInStderr)
  /\ comparisons' = comparisons + 1
  /\ firstEq' = IF firstEq = 0 /\ program = output' THEN count ELSE firstEq
  /\ IF TextEq(program, output')
       THEN /\ printed' = Append(printed,
                                 Line("converged", count, NumLines(program)))
            /\ ret' = IF AfterMatch = "returned" THEN "True" ELSE ret
            /\ pc' = AfterMatch
            /\ UNCHANGED program
       ELSE /\ program' = NextProgram(program, output')
            /\ pc' = "loop"
            /\ UNCHANGED <<printed, ret>>
  /\ UNCHANGED <<maxIterations, call, tool, count, file, writes,
                 failedBefore>>

\* lines 51-52: the loop ran out; report and return False
Exhausted ==
  /\ pc = "loop"
  /\ count >= LastCount
  /\ printed' = Append(printed, Line("exhausted", ReportedCount(count), 0))
  /\ ret' = "False"
  /\ pc' = "returned"
  /\ UNCHANGED <<maxIterations, call, tool, program, count, file, result,
                 output, invocations, writes, comparisons, firstEq,
                 procStarted, failedBefore>>

\* lines 58-128: the next module-level call of compileErrors
NextCall ==
  /\ pc = "returned"
  /\ call < NumCalls
  /\ call' = call + 1
  /\ tool' \in ToolKinds
  /\ pc' = "enter"
  /\ program' = <<>>
  /\ count' = 0
  /\ file' = <<>>
  /\ result' = NotStarted
  /\ output' = <<>>
  /\ printed' = <<>>
  /\ ret' = "none"
  /\ invocations' = 0
  /\ writes' = 0
  /\ comparisons' = 0
  /\ firstEq' = 0
  /\ procStarted' = FALSE
  /\ UNCHANGED <<maxIterations, failedBefore>>

Next ==
  \/ Enter
  \/ Iterate
  \/ RunOK
  \/ RunFail
  \/ Exhausted
  \/ NextCall

Spec == Init /\ [][Next]_vars

\* One search on its own: compileErrors entered for any one of the calls,
\* followed up to its return, with a tool that writes to the selected
\* stream only.  The control thread is the only process and blocks on
\* nothing but the invocation, which completes or fails to start, so a step
\* that can be taken is eventually taken.
SearchInit ==
  /\ maxIterations \in 1..MaxBudget
  /\ call \in 1..NumCalls
  /\ tool \in ToolKinds \ {"arbitrary"}
  /\ pc = "enter"
  /\ program = <<>>
  /\ count = 0
  /\ file = <<>>
  /\ result = NotStarted
  /\ output = <<>>
  /\ printed = <<>>
  /\ ret = "none"
  /\ invocations = 0
  /\ writes = 0
  /\ comparisons = 0
  /\ firstEq = 0
  /\ procStarted = FALSE
  /\ failedBefore = FALSE

SearchNext ==
  \/ Enter
  \/ Iterate
  \/ RunOK
  \/ RunFail
  \/ Exhausted

SearchSpec == SearchInit /\ [][SearchNext]_vars /\ WF_vars(SearchNext)

TypeOK ==
  /\ maxIterations \in 1..MaxBudget
  /\ call \in 1..NumCalls
  /\ tool \in ToolKinds
  /\ count \in 0..maxIterations
  /\ pc \in {"enter", "loop", "run", "returned"}
  /\ ret \in {"none", "True", "False"}

\* ------------------------------------------------------------ properties
Selected == IF Cfg.errorsInStderr THEN result.stderr ELSE result.stdout

Reported(kind) == \E i \in 1..Len(printed) : printed[i].kind = kind

\* C1: a search that has returned made at least one and at most
\* maxIterations transformer invocations (attempts included), and no
\* search in progress has made more than maxIterations.
C1_InvocationBounds ==
  /\ invocations <= maxIterations
  /\ pc = "returned" => invocations >= 1

C1_Witness ==
  pc = "returned" /\ maxIterations >= 2 /\ invocations = maxIterations

\* C2: with the echo tool and the empty starting text the search returns
\* converged at iteration 1 with final text "": the artifact text and the
\* captured output line up at the first comparison.
C2_EchoConvergesAtOnce ==
  (tool = "echo" /\ Cfg.startingProgram = <<>>) =>
     /\ comparisons >= 1 => firstEq = 1
     /\ pc = "returned" =>
          (printed = <<Line("converged", 1, 0)>> /\ program = <<>>)

\* C3: a search whose invocations all started and whose captured output
\* differed from the candidate at every iteration returns "did not converge"
\* with the count maxIterations after exactly maxIterations invocations.
C3_ExhaustedBudget ==
  (pc = "returned" /\ procStarted /\ firstEq = 0) =>
     /\ printed = <<Line("exhausted", maxIterations, 0)>>
     /\ ret = "False"
     /\ invocations = maxIterations
     /\ comparisons = maxIterations

C3_Witness ==
  /\ pc = "returned" /\ procStarted /\ firstEq = 0
  /\ maxIterations >= 2 /\ tool = "arbitrary"

\* C4: convergence is reported at iteration k exactly when k is the first
\* iteration whose captured output equals, character for character, the
\* candidate fed at that iteration; k lies in 1..maxIterations.
C4_ConvergedIffFirstEqual ==
  /\ \A i \in 1..Len(printed) :
       printed[i].kind = "converged" =>
         /\ firstEq = printed[i].count
         /\ count = firstEq
         /\ program = output
         /\ firstEq \in 1..maxIterations
  /\ firstEq # 0 =>
       /\ pc = "returned"
       /\ ret = "True"
       /\ printed = <<Line("converged", firstEq, NumLines(program))>>
  /\ (pc = "loop" /\ comparisons > 0) => (firstEq = 0 /\ printed = <<>>)

C4_Witness ==
  pc = "returned" /\ Reported("converged") /\ firstEq >= 2
    /\ program = <<"x", NL>>

\* C5: start "x", budget at least 2, tool always emitting the literal
\* diagnostic: no convergence at iteration 1, the candidate becomes the
\* diagnostic, and the search converges at iteration 2 with that text.
C5_ConstantToolConvergesAtTwo ==
  (tool = "constant" /\ Cfg.startingProgram = <<"x">> /\ maxIterations >= 2) =>
     /\ (pc = "loop" /\ count = 1) =>
          (program = Diagnostic /\ printed = <<>> /\ firstEq = 0)
     /\ pc = "returned" =>
          /\ printed = <<Line("converged", 2, 1)>>
          /\ program = Diagnostic
          /\ invocations = 2

C5_Witness ==
  /\ tool = "constant" /\ Cfg.startingProgram = <<"x">>
  /\ maxIterations >= 2 /\ pc = "returned"

\* C6: when the invocation of iteration k cannot be started the search
\* returns at once with the error outcome: k writes, k invocations, k-1
\* comparisons, and the only step left is the next module-level call.
C6_FailureState ==
  /\ Reported("error") =>
       /\ pc = "returned"
       /\ printed = <<Line("error", 0, 0)>>
       /\ ret = "False"
       /\ ~procStarted
       /\ invocations = count
       /\ writes = count
       /\ comparisons = count - 1
  /\ (invocations > 0 /\ ~procStarted) => Reported("error")

C6_InvocationFailureStops ==
  /\ []C6_FailureState
  /\ [][Reported("error") => call' = call + 1]_vars

C6_Witness ==
  Reported("error") /\ count = 1 /\ comparisons = 0 /\ pc = "returned"

\* C7: an invocation failure never ends the script: the failing search
\* returns, and whenever a search has returned and calls remain, the next
\* configured call, and only that one, is started.
C7_AfterFailure ==
  /\ failedBefore => pc # "raised"
  /\ Reported("error") =>
       (pc = "returned" /\ (call < NumCalls => ENABLED NextCall))

C7_FailureIsConfined ==
  /\ []C7_AfterFailure
  /\ [][(failedBefore /\ pc = "returned") =>
          (call' = call + 1 /\ pc' = "enter" /\ call < NumCalls)]_vars

C7_Witness ==
  /\ failedBefore /\ call = NumCalls /\ pc = "returned"
  /\ Reported("converged")

\* C8: every search ends, and it reports exactly one outcome line, of kind
\* converged, error or exhausted, when it returns and none before.
C8_OneLine ==
  /\ pc # "returned" => printed = <<>>
  /\ pc = "returned" =>
       /\ Len(printed) = 1
       /\ printed[1].kind \in {"converged", "error", "exhausted"}
       /\ ret = (IF printed[1].kind = "converged" THEN "True" ELSE "False")

C8_ExactlyOneOutcome ==
  /\ []C8_OneLine
  /\ (pc = "enter") ~> (pc = "returned")

C8_Witness ==
  pc = "returned" /\ call = 3 /\ Reported("converged") /\ count = 1

\* C9: the exit status plays no part: the error outcome occurs only when
\* the process did not start, and the step after a completed invocation is
\* decided by the candidate and the selected stream alone.
C9_ExitStatusIgnored ==
  /\ [](Reported("error") => ~procStarted)
  /\ [][(pc = "run" /\ procStarted') =>
          IF program = Selected'
            THEN pc' = "returned" /\ ret' = "True" /\ program' = program
            ELSE pc' = "loop" /\ program' = Selected' /\ printed' = printed]_vars

C9_Witness ==
  pc = "returned" /\ Reported("converged") /\ result.returncode = 1

\* C10: while an invocation is in flight the artifact file is the candidate
\* of that iteration plus one line terminator, written once per iteration;
\* the next candidate is the captured selected stream.
C10_InFlight ==
  pc = "run" =>
    /\ file = program \o <<NL>>
    /\ writes = count
    /\ invocations = count - 1

C10_ArtifactReflectsCandidate ==
  /\ []C10_InFlight
  /\ [][(pc = "run" /\ pc' = "loop") =>
          /\ program' = (IF Cfg.errorsInStderr THEN result'.stderr
                                               ELSE result'.stdout)
          /\ file' = file]_vars

C10_Witness ==
  pc = "run" /\ count = 2 /\ program = <<"x", NL>> /\ ~Cfg.errorsInStderr
====
